---- MODULE Spec2Model ----
(***************************************************************************)
(* A model of file_time_2_interval.py: process_time_report(file_path)      *)
(* reads a CSV report, keeps the rows whose FileName ends with ".pxm",     *)
(* computes the interval between consecutive kept rows, shortens the file  *)
(* names and writes the result back over the same file.                    *)
(*                                                                         *)
(* A text is a sequence of one-character strings.  A file is a record      *)
(* [exists, lines]; a line is a sequence of fields and a field is a text   *)
(* (the fields of the modelled files hold no comma, quote or line break,   *)
(* so CSV quoting never applies).  A DataFrame cell is a record [t, s, n]: *)
(* t is "str" (s is the text), "nan" (a missing value), "time" (n is the   *)
(* timestamp in milliseconds), "nat" (a missing timestamp) or "float"      *)
(* (n/1000 is the number of seconds).                                      *)
(***************************************************************************)
EXTENDS Integers, Sequences, FiniteSets

\* fs:   the file system, a file for each path.
\* call: the last call of process_time_report: its path, the file system
\*       before it, the outcome of the call before it on the same path, and
\*       its own outcome, exception and number of writes.
\* last: for each path, the outcome of the last call on it.
VARIABLES fs, call, last

vars == <<fs, call, last>>

(***************************************************************************)
(* Bounds of the model.                                                    *)
(***************************************************************************)
MaxRows == 3

(***************************************************************************)
(* Literals of the program.                                                *)
(***************************************************************************)
DefaultPath == "FileCreationTime_Report.csv"

OtherPath == "other.csv"

Paths == {DefaultPath, OtherPath}

FileNameCol == <<"F","i","l","e","N","a","m","e">>

CreationTimeCol ==
    <<"C","r","e","a","t","i","o","n","T","i","m","e"," ",
      "(","w","i","t","h"," ","m","s",")">>

TimeIntervalCol == <<"T","i","m","e","I","n","t","e","r","v","a","l">>

PxmSuffix == <<".","p","x","m">>

Underscore == "_"

(***************************************************************************)
(* Texts and numbers.                                                      *)
(***************************************************************************)
Digits == <<"0","1","2","3","4","5","6","7","8","9">>

IsDigit(c) == \E i \in 1..10 : Digits[i] = c

DigitVal(c) == (CHOOSE i \in 1..10 : Digits[i] = c) - 1

RECURSIVE IntText(_)
IntText(n) ==
    IF n < 10 THEN <<Digits[n + 1]>>
    ELSE IntText(n \div 10) \o <<Digits[(n % 10) + 1]>>

\* The fraction digits of a float's repr: trailing zeros dropped, one digit kept.
FracText(m) ==
    IF m % 100 = 0 THEN <<Digits[(m \div 100) + 1]>>
    ELSE IF m % 10 = 0
         THEN <<Digits[(m \div 100) + 1], Digits[((m \div 10) % 10) + 1]>>
         ELSE <<Digits[(m \div 100) + 1], Digits[((m \div 10) % 10) + 1],
                Digits[(m % 10) + 1]>>

\* str(x) of the float x = ms/1000, as to_csv writes a float held in an
\* object column.
FloatText(ms) ==
    LET a == IF ms < 0 THEN 0 - ms ELSE ms
    IN  (IF ms < 0 THEN <<"-">> ELSE <<>>)
        \o IntText(a \div 1000) \o <<".">> \o FracText(a % 1000)

\* Whether the C parser reads the text as a number.
IsNumber(s) ==
    LET body == IF Len(s) > 0 /\ s[1] = "-" THEN Tail(s) ELSE s
    IN  /\ \E i \in 1..Len(body) : IsDigit(body[i])
        /\ \A i \in 1..Len(body) : IsDigit(body[i]) \/ body[i] = "."
        /\ Cardinality({i \in 1..Len(body) : body[i] = "."}) <= 1

(***************************************************************************)
(* DataFrame cells.                                                        *)
(***************************************************************************)
NaN == [t |-> "nan", s |-> <<>>, n |-> 0]

NaT == [t |-> "nat", s |-> <<>>, n |-> 0]

Str(x) == [t |-> "str", s |-> x, n |-> 0]

Float(ms) == [t |-> "float", s |-> <<>>, n |-> ms]

Timestamp(ms) == [t |-> "time", s |-> <<>>, n |-> ms]

(***************************************************************************)
(* Files.                                                                  *)
(***************************************************************************)
Absent == [exists |-> FALSE, lines |-> <<>>]

FileOf(ls) == [exists |-> TRUE, lines |-> ls]

\* Mutant: the existence check always passes.
path_exists_always(fsys, p) == TRUE

\* os.path.exists(file_path)
path_exists(fsys, p) == fsys[p].exists

(***************************************************************************)
(* pandas.read_csv with its defaults: blank lines are skipped, the first   *)
(* line left is the header, an empty field is a missing value, a short row *)
(* is padded with missing values, a first data row longer than the header  *)
(* gives its leading fields to the index, and a later row longer than that *)
(* is a tokenizing error.  Duplicate header names are not renamed here: a  *)
(* look-up by name takes the first column of that name either way.         *)
(***************************************************************************)
IsBlankLine(l) == Len(l) = 0 \/ (Len(l) = 1 /\ l[1] = <<>>)

Unnamed(j) == <<"U","n","n","a","m","e","d",":"," ">> \o IntText(j - 1)

Failed(e) == [exc |-> e, columns |-> <<>>, rows |-> <<>>]

read_csv(file) ==
    LET ls == SelectSeq(file.lines, LAMBDA l : ~IsBlankLine(l))
    IN  IF ~file.exists THEN Failed("FileNotFoundError")
        ELSE IF Len(ls) = 0 THEN Failed("EmptyDataError")
        ELSE
          LET header == ls[1]
              data == Tail(ls)
              nidx == IF Len(data) > 0 /\ Len(data[1]) > Len(header)
                      THEN Len(data[1]) - Len(header) ELSE 0
              width == Len(header) + nidx
              cellAt(row, j) ==
                  IF nidx + j <= Len(row) /\ row[nidx + j] # <<>>
                  THEN Str(row[nidx + j]) ELSE NaN
          IN  IF \E i \in 1..Len(data) : Len(data[i]) > width
              THEN Failed("ParserError")
              ELSE [exc |-> "",
                    columns |-> [j \in 1..Len(header) |->
                                   IF header[j] = <<>> THEN Unnamed(j)
                                   ELSE header[j]],
                    rows |-> [i \in 1..Len(data) |->
                                [j \in 1..Len(header) |-> cellAt(data[i], j)]]]

\* df.columns.get_loc(name), 0 when df[name] raises KeyError.
get_loc(df, name) ==
    IF \E j \in 1..Len(df.columns) : df.columns[j] = name
    THEN CHOOSE j \in 1..Len(df.columns) :
           /\ df.columns[j] = name
           /\ \A k \in 1..(j - 1) : df.columns[k] # name
    ELSE 0

\* df[name] as the sequence of its cells.
Column(df, j) == [i \in 1..Len(df.rows) |-> df.rows[i][j]]

\* Whether the .str accessor accepts the column as read_csv typed it: a
\* column with no row is of object dtype, a column whose values are all
\* missing or all numbers is numeric and is refused (AttributeError).
str_accessor_ok(col) ==
    \/ Len(col) = 0
    \/ \E i \in 1..Len(col) : col[i].t = "str" /\ ~IsNumber(col[i].s)

EndsWith(s, pat) ==
    /\ Len(s) >= Len(pat)
    /\ SubSeq(s, Len(s) - Len(pat) + 1, Len(s)) = pat

LowerChar(c) ==
    IF c = "P" THEN "p" ELSE IF c = "X" THEN "x" ELSE IF c = "M" THEN "m" ELSE c

\* Mutant: the suffix is matched without regard to case.
str_endswith_nocase(cell, pat, na) ==
    IF cell.t = "str"
    THEN EndsWith([i \in 1..Len(cell.s) |-> LowerChar(cell.s[i])], pat)
    ELSE na

\* Series.str.endswith(pat, na=na) on one cell.
str_endswith(cell, pat, na) ==
    IF cell.t = "str" THEN EndsWith(cell.s, pat) ELSE na

(***************************************************************************)
(* pd.to_datetime on one cell.  The model writes a timestamp as the        *)
(* ":SS.mmm" tail of "YYYY-MM-DD HH:MM:SS.mmm"; the part left out is the   *)
(* same in every modelled row.  A missing value becomes NaT; any other     *)
(* text that is no timestamp raises.                                       *)
(***************************************************************************)
IsTimeText(s) ==
    /\ Len(s) = 7
    /\ s[1] = ":"
    /\ s[4] = "."
    /\ \A i \in {2, 3, 5, 6, 7} : IsDigit(s[i])

TimeMs(s) ==
    (10 * DigitVal(s[2]) + DigitVal(s[3])) * 1000
    + 100 * DigitVal(s[5]) + 10 * DigitVal(s[6]) + DigitVal(s[7])

datetime_ok(cell) == cell.t = "nan" \/ (cell.t = "str" /\ IsTimeText(cell.s))

to_datetime(cell) ==
    IF cell.t = "str" THEN Timestamp(TimeMs(cell.s)) ELSE NaT

\* Mutant: each value minus the first one.
diff_from_first(col) ==
    [i \in 1..Len(col) |->
       IF i > 1 /\ col[i].t = "time" /\ col[1].t = "time"
       THEN [t |-> "delta", s |-> <<>>, n |-> col[i].n - col[1].n]
       ELSE NaT]

\* Series.diff(): each value minus the one before it; the first has none.
diff(col) ==
    [i \in 1..Len(col) |->
       IF i > 1 /\ col[i].t = "time" /\ col[i - 1].t = "time"
       THEN [t |-> "delta", s |-> <<>>, n |-> col[i].n - col[i - 1].n]
       ELSE NaT]

\* .dt.total_seconds() on one cell.
total_seconds(cell) == IF cell.t = "delta" THEN Float(cell.n) ELSE NaN

\* Mutant: the first interval is set to the number 0.
set_first_zero(col) ==
    [i \in 1..Len(col) |-> IF i = 1 THEN Float(0) ELSE col[i]]

\* df_pxm.iloc[0, TimeInterval] = ''
set_first_empty(col) ==
    [i \in 1..Len(col) |-> IF i = 1 THEN Str(<<>>) ELSE col[i]]

\* str.split(sep)
RECURSIVE str_split(_, _)
str_split(s, sep) ==
    IF \A i \in 1..Len(s) : s[i] # sep THEN <<s>>
    ELSE LET i == CHOOSE k \in 1..Len(s) :
                    s[k] = sep /\ \A m \in 1..(k - 1) : s[m] # sep
         IN  <<SubSeq(s, 1, i - 1)>> \o str_split(SubSeq(s, i + 1, Len(s)), sep)

\* Mutant: the first segment is kept (.str[0]).
split_first(cell) ==
    IF cell.t = "str"
    THEN LET parts == str_split(cell.s, Underscore) IN Str(parts[1])
    ELSE NaN

\* .str.split('_').str[-1] on one cell.
split_last(cell) ==
    IF cell.t = "str"
    THEN LET parts == str_split(cell.s, Underscore) IN Str(parts[Len(parts)])
    ELSE NaN

\* Mutant: the two columns are selected in the other order.
select_columns_swapped(names, intervals) ==
    [i \in 1..Len(names) |-> <<intervals[i], names[i]>>]

\* df_pxm[['FileName', 'TimeInterval']]: the output rows, in this column order.
select_columns(names, intervals) ==
    [i \in 1..Len(names) |-> <<names[i], intervals[i]>>]

\* One cell as to_csv writes it (na_rep = '').
CellText(cell) ==
    IF cell.t = "str" THEN cell.s
    ELSE IF cell.t = "float" THEN FloatText(cell.n)
    ELSE <<>>

\* Mutant: the header line is written too (header=True).
to_csv_with_header(rows) ==
    FileOf(<< <<FileNameCol, TimeIntervalCol>> >>
           \o [i \in 1..Len(rows) |->
                 [j \in 1..Len(rows[i]) |-> CellText(rows[i][j])]])

\* output_df.to_csv(file_path, index=False, header=False)
to_csv(rows) ==
    FileOf([i \in 1..Len(rows) |->
              [j \in 1..Len(rows[i]) |-> CellText(rows[i][j])]])

(***************************************************************************)
(* process_time_report.  A result is [outcome, exc, file, writes]: how the *)
(* call ended, the exception raised on the way (if any), the content of    *)
(* the file at file_path when it ended and how many times the call opened  *)
(* that file for writing.                                                  *)
(***************************************************************************)
Raise(e, file) == [outcome |-> "Raised", exc |-> e, file |-> file, writes |-> 0]

\* The body of the try statement, on the content of the file at file_path.
\* The assignment of line 32 is taken to replace the column by the parsed
\* timestamps, so that diff() works on timestamps.
try_body(file) ==
    LET df == read_csv(file)
        fn == get_loc(df, FileNameCol)
        ct == get_loc(df, CreationTimeCol)
        names == Column(df, fn)
        keep == {i \in 1..Len(df.rows) : str_endswith(names[i], PxmSuffix, FALSE)}
        df_pxm == SelectSeq([i \in 1..Len(df.rows) |-> [idx |-> i, row |-> df.rows[i]]],
                            LAMBDA r : r.idx \in keep)
        pxm_names == [i \in 1..Len(df_pxm) |-> df_pxm[i].row[fn]]
        pxm_times == [i \in 1..Len(df_pxm) |-> df_pxm[i].row[ct]]
        stamps == [i \in 1..Len(df_pxm) |-> to_datetime(pxm_times[i])]
        deltas == diff(stamps)
        time_intervals == [i \in 1..Len(deltas) |-> total_seconds(deltas[i])]
        TimeInterval == set_first_empty(time_intervals)
        FileName == [i \in 1..Len(pxm_names) |-> split_last(pxm_names[i])]
        output_df == select_columns(FileName, TimeInterval)
    IN  IF df.exc # "" THEN Raise(df.exc, file)
        ELSE IF fn = 0 THEN Raise("KeyError: 'FileName'", file)
        ELSE IF ~str_accessor_ok(names) THEN Raise("AttributeError", file)
        ELSE IF Len(df_pxm) = 0
             THEN [outcome |-> "EmptyResult", exc |-> "", file |-> FileOf(<<>>),
                   writes |-> 1]
        ELSE IF ct = 0 THEN Raise("KeyError: 'CreationTime (with ms)'", file)
        ELSE IF \E i \in 1..Len(pxm_times) : ~datetime_ok(pxm_times[i])
             THEN Raise("ValueError", file)
        ELSE [outcome |-> "Success", exc |-> "", file |-> to_csv(output_df),
              writes |-> 1]

\* Mutant: the handler clears the file.
try_except_truncating(r) ==
    IF r.outcome = "Raised"
    THEN [outcome |-> "Error", exc |-> r.exc, file |-> FileOf(<<>>),
          writes |-> r.writes + 1]
    ELSE r

\* Mutant: the handler takes ValueError only.
try_except_narrow(r) ==
    IF r.outcome = "Raised"
    THEN IF r.exc = "ValueError"
         THEN [outcome |-> "Error", exc |-> r.exc, file |-> r.file,
               writes |-> r.writes]
         ELSE [outcome |-> "Propagated", exc |-> r.exc, file |-> r.file,
               writes |-> r.writes]
    ELSE r

\* except Exception as e: print(...).  An exception that no handler takes
\* leaves the call ("Propagated").
try_except(r) ==
    IF r.outcome = "Raised"
    THEN [outcome |-> "Error", exc |-> r.exc, file |-> r.file, writes |-> r.writes]
    ELSE r

process_time_report(file_path) ==
    \E r \in { IF ~path_exists(fs, file_path)
                THEN [outcome |-> "FileNotFound", exc |-> "",
                      file |-> fs[file_path], writes |-> 0]
                ELSE try_except(try_body(fs[file_path])) } :
        /\ fs' = [fs EXCEPT ![file_path] = r.file]
        /\ call' = [path |-> file_path, before |-> fs, prior |-> last[file_path],
                    outcome |-> r.outcome, exc |-> r.exc, writes |-> r.writes]
        /\ last' = [last EXCEPT ![file_path] = r.outcome]

\* if __name__ == "__main__": process_time_report()
Main == process_time_report(DefaultPath)

\* A call with an explicit path.
Call == process_time_report(OtherPath)

(***************************************************************************)
(* The files the program may find.                                         *)
(***************************************************************************)
NameA == <<"a","_","b","_","1",".","p","x","m">>

NameB == <<"2",".","p","x","m">>

NameC == <<"a","_","3",".","P","X","M">>

NameD == <<"7">>

Blank == <<>>

TimeA == <<":","0","0",".","0","0","0">>

TimeB == <<":","0","1",".","5","0","0">>

BadTime == <<"?">>

SizeCol == <<"S","i","z","e">>

NameCells == {NameA, NameB, NameC, NameD, Blank}

TimeCells == {TimeA, TimeB, BadTime, Blank}

CellDomain(col) ==
    IF col = FileNameCol THEN NameCells
    ELSE IF col = CreationTimeCol THEN TimeCells
    ELSE {<<"9">>}

Headers ==
    { <<FileNameCol, CreationTimeCol>>,
      <<CreationTimeCol, SizeCol, FileNameCol>>,
      <<FileNameCol>>,
      <<CreationTimeCol>> }

RowsOf(h) ==
    {r \in [1..Len(h) -> NameCells \cup TimeCells \cup {<<"9">>}] :
       \A j \in 1..Len(h) : r[j] \in CellDomain(h[j])}

\* A report with header h and the given rows.
Table(h, rows) == FileOf(<<h>> \o rows)

\* A report whose last row has a field too many, and one with a short row.
RaggedFiles ==
    { FileOf(<< <<FileNameCol, CreationTimeCol>>, <<NameA, TimeA>>,
                <<NameB, TimeB, <<"9">> >> >>),
      FileOf(<< <<FileNameCol, CreationTimeCol>>, <<NameA, TimeA>>, <<NameB>> >>) }

OtherFiles == RaggedFiles \cup {FileOf(<<>>), Absent}

StartsWith(report) ==
    fs = [p \in Paths |-> IF p = DefaultPath THEN report ELSE Absent]

NoCall ==
    [path |-> "", before |-> [p \in Paths |-> Absent], prior |-> "none",
     outcome |-> "none", exc |-> "", writes |-> 0]

Init ==
    /\ \/ \E h \in Headers, n \in 0..MaxRows :
             \E rows \in [1..n -> RowsOf(h)] : StartsWith(Table(h, rows))
       \/ \E report \in OtherFiles : StartsWith(report)
    /\ call = NoCall
    /\ last = [p \in Paths |-> "none"]

Next == Main \/ Call

Spec == Init /\ [][Next]_vars

(***************************************************************************)
(* What the properties below speak of: the last call, the file it was      *)
(* given and the file it left, read straight from the lines of the files   *)
(* and not through the program's own operators.                            *)
(***************************************************************************)
Called == call.outcome # "none"

Before == call.before[call.path]

After == fs[call.path]

OutRows == After.lines

\* A file with a header line and no row longer than the header.
IsReport(f) ==
    /\ f.exists
    /\ Len(f.lines) >= 1
    /\ \A i \in 2..Len(f.lines) : Len(f.lines[i]) <= Len(f.lines[1])

ColIndex(f, name) ==
    IF \E j \in 1..Len(f.lines[1]) : f.lines[1][j] = name
    THEN CHOOSE j \in 1..Len(f.lines[1]) : f.lines[1][j] = name
    ELSE 0

FieldOf(row, j) == IF j >= 1 /\ j <= Len(row) THEN row[j] ELSE <<>>

NameOf(f, row) == FieldOf(row, ColIndex(f, FileNameCol))

TimeOf(f, row) == FieldOf(row, ColIndex(f, CreationTimeCol))

HasPxmSuffix(s) ==
    /\ Len(s) >= 4
    /\ s[Len(s) - 3] = "."
    /\ s[Len(s) - 2] = "p"
    /\ s[Len(s) - 1] = "x"
    /\ s[Len(s)] = "m"

\* The selected rows of a report, in file order.
Selected(f) == SelectSeq(Tail(f.lines), LAMBDA r : HasPxmSuffix(NameOf(f, r)))

IsSuffixOf(a, b) ==
    /\ Len(a) <= Len(b)
    /\ \A i \in 1..Len(a) : a[i] = b[Len(b) - Len(a) + i]

HasUnderscore(s) == \E i \in 1..Len(s) : s[i] = "_"

AfterLastUnderscore(s) ==
    LET k == IF HasUnderscore(s)
             THEN CHOOSE i \in 1..Len(s) :
                    s[i] = "_" /\ \A m \in (i + 1)..Len(s) : s[m] # "_"
             ELSE 0
    IN  SubSeq(s, k + 1, Len(s))

\* A decimal number of seconds as text, and its value in milliseconds.
Unsigned(s) == IF Len(s) > 0 /\ s[1] = "-" THEN Tail(s) ELSE s

IsSecondsText(s) ==
    LET b == Unsigned(s)
    IN  /\ Cardinality({i \in 1..Len(b) : b[i] = "."}) = 1
        /\ \A i \in 1..Len(b) : IsDigit(b[i]) \/ b[i] = "."
        /\ b[1] # "."
        /\ \E i \in 1..3 : b[Len(b) - i] = "."

RECURSIVE DigitsValue(_)
DigitsValue(s) ==
    IF Len(s) = 0 THEN 0
    ELSE 10 * DigitsValue(SubSeq(s, 1, Len(s) - 1)) + DigitVal(s[Len(s)])

SecondsMs(s) ==
    LET b == Unsigned(s)
        k == CHOOSE i \in 1..Len(b) : b[i] = "."
        frac == SubSeq(b, k + 1, Len(b))
        scale == IF Len(frac) = 1 THEN 100 ELSE IF Len(frac) = 2 THEN 10 ELSE 1
        a == 1000 * DigitsValue(SubSeq(b, 1, k - 1)) + scale * DigitsValue(frac)
    IN  IF s[1] = "-" THEN 0 - a ELSE a

(***************************************************************************)
(* C1.  A call with a path at which no file exists reports FileNotFound    *)
(* and leaves the whole file system as it was: no file exists at the path  *)
(* afterwards and no other file is created or modified.                    *)
(***************************************************************************)
C1_MissingFileUntouched ==
    (Called /\ ~Before.exists) =>
        /\ call.outcome = "FileNotFound"
        /\ call.writes = 0
        /\ ~After.exists
        /\ fs = call.before

C1_Witness ==
    /\ Called
    /\ ~Before.exists
    /\ call.outcome = "FileNotFound"
    /\ \E p \in Paths : call.before[p].exists /\ Len(call.before[p].lines) > 1

(***************************************************************************)
(* C2.  For every existing report with a FileName column in which no row's *)
(* FileName ends with ".pxm" (a header-only report and a report whose rows *)
(* all lack a FileName included), the call ends as an empty result and     *)
(* leaves the file in existence with zero length.                          *)
(***************************************************************************)
C2_NoPxmRowTruncates ==
    (/\ Called
     /\ IsReport(Before)
     /\ ColIndex(Before, FileNameCol) > 0
     /\ Len(Selected(Before)) = 0) =>
        /\ call.outcome = "EmptyResult"
        /\ After.exists
        /\ After.lines = <<>>

(***************************************************************************)
(* C3.  For every report whose selected rows all have a parseable          *)
(* timestamp the call succeeds, and for every selected row after the first *)
(* the emitted TimeInterval is a number of seconds equal to the row's      *)
(* timestamp minus that of the selected row just before it (rows that are  *)
(* not selected do not count): signed, and 0 for equal timestamps.         *)
(***************************************************************************)
C3_IntervalIsDifference ==
    (/\ Called
     /\ IsReport(Before)
     /\ ColIndex(Before, FileNameCol) > 0
     /\ ColIndex(Before, CreationTimeCol) > 0
     /\ Len(Selected(Before)) >= 1
     /\ \A i \in 1..Len(Selected(Before)) :
          IsTimeText(TimeOf(Before, Selected(Before)[i]))) =>
        /\ call.outcome = "Success"
        /\ Len(OutRows) = Len(Selected(Before))
        /\ \A i \in 2..Len(OutRows) :
             /\ IsSecondsText(OutRows[i][2])
             /\ SecondsMs(OutRows[i][2]) =
                  TimeMs(TimeOf(Before, Selected(Before)[i]))
                  - TimeMs(TimeOf(Before, Selected(Before)[i - 1]))

C3_Witness ==
    /\ Called
    /\ call.outcome = "Success"
    /\ Len(Before.lines) = 4
    /\ HasPxmSuffix(NameOf(Before, Before.lines[2]))
    /\ ~HasPxmSuffix(NameOf(Before, Before.lines[3]))
    /\ HasPxmSuffix(NameOf(Before, Before.lines[4]))
    /\ \A i \in {2, 4} : IsTimeText(TimeOf(Before, Before.lines[i]))
    /\ Len(OutRows) = 2
    /\ OutRows[2][2] = <<"-","1",".","5">>

C5_OutputRowsAreSelectedRows ==
    (Called /\ call.outcome = "Success" /\ IsReport(Before)) =>
        /\ Len(Selected(Before)) >= 1
        /\ Len(OutRows) = Len(Selected(Before))
        /\ \A i \in 1..Len(OutRows) :
             /\ Len(OutRows[i]) = 2
             /\ OutRows[i][1] # <<>>
             /\ IsSuffixOf(OutRows[i][1], NameOf(Before, Selected(Before)[i]))
             /\ OutRows[i][1] # FileNameCol
             /\ OutRows[i][2] = <<>> \/ IsSecondsText(OutRows[i][2])

C5_Witness ==
    /\ Called
    /\ call.outcome = "Success"
    /\ Len(Before.lines[1]) = 3
    /\ Len(Before.lines) = 4
    /\ NameOf(Before, Before.lines[2]) = NameA
    /\ NameOf(Before, Before.lines[3]) = NameC
    /\ NameOf(Before, Before.lines[4]) = NameB
    /\ Len(OutRows) = 2
    /\ OutRows[1][1] = <<"1",".","p","x","m">>
    /\ OutRows[2][1] = NameB

(***************************************************************************)
(* C6.  Each file name a successful call writes is the part of the         *)
(* selected row's FileName after its last underscore; a name with no       *)
(* underscore is written unchanged; and reformatting a written name again  *)
(* gives the same name.                                                    *)
(***************************************************************************)
C6_NameIsLastSegment ==
    (Called /\ call.outcome = "Success" /\ IsReport(Before)) =>
        \A i \in 1..Len(OutRows) :
           LET name == NameOf(Before, Selected(Before)[i])
           IN  /\ OutRows[i][1] = AfterLastUnderscore(name)
               /\ ~HasUnderscore(name) => OutRows[i][1] = name
               /\ split_last(Str(OutRows[i][1])) = Str(OutRows[i][1])

C6_Witness ==
    /\ Called
    /\ call.outcome = "Success"
    /\ Len(OutRows) = 2
    /\ NameOf(Before, Selected(Before)[1]) = NameB
    /\ NameOf(Before, Selected(Before)[2]) = NameA
    /\ OutRows[1][1] = NameB
    /\ OutRows[2][1] = <<"1",".","p","x","m">>

(***************************************************************************)
(* C7, as claimed.  A call on the file a successful call wrote ends in an  *)
(* error raised for the missing "CreationTime (with ms)" column.           *)
(***************************************************************************)
C7_SecondRunMissesCreationTime ==
    (Called /\ call.prior = "Success") =>
        /\ call.outcome = "Error"
        /\ call.exc = "KeyError: 'CreationTime (with ms)'"

(***************************************************************************)
(* C7, amended.  A call on the file a successful call wrote ends in a      *)
(* caught error raised for the missing "FileName" column (the first line   *)
(* of that file is read as the header, and the filter looks FileName up    *)
(* before CreationTime is touched); it rewrites nothing and truncates      *)
(* nothing.                                                                *)
(***************************************************************************)
C7_SecondRunMissesFileName ==
    (Called /\ call.prior = "Success") =>
        /\ call.outcome = "Error"
        /\ call.exc = "KeyError: 'FileName'"
        /\ call.writes = 0
        /\ fs = call.before

C7_Witness ==
    /\ Called
    /\ call.prior = "Success"
    /\ call.outcome = "Error"
    /\ Len(Before.lines) >= 2
    /\ \A i \in 1..Len(Before.lines) : Len(Before.lines[i]) = 2

(***************************************************************************)
(* C8.  A call that ends in a caught error (a malformed table, a missing   *)
(* column, an unparseable CreationTime in a selected row) leaves every     *)
(* file as it was; a call writes the file at most once, and only when it   *)
(* ends as an empty result or as a success.                                *)
(***************************************************************************)
C8_ErrorLeavesFileAlone ==
    Called =>
        /\ call.outcome = "Error" => (fs = call.before /\ call.writes = 0)
        /\ call.writes <= 1
        /\ call.writes = 1 => call.outcome \in {"EmptyResult", "Success"}
        /\ fs # call.before => call.writes = 1
        /\ \A p \in Paths \ {call.path} : fs[p] = call.before[p]

C8_Witness ==
    /\ Called
    /\ call.outcome = "Error"
    /\ call.exc = "ValueError"
    /\ Len(Before.lines) = 4
    /\ HasPxmSuffix(NameOf(Before, Before.lines[4]))
    /\ TimeOf(Before, Before.lines[4]) = BadTime
    /\ After = Before

(***************************************************************************)
(* C9.  Every call returns in one of four ways: file not found, empty      *)
(* result, success, or an error caught and reported; an exception raised   *)
(* while loading, filtering, parsing, computing or writing never leaves    *)
(* the call.                                                               *)
(***************************************************************************)
C9_EveryCallReturns ==
    Called =>
        /\ call.outcome \in {"FileNotFound", "EmptyResult", "Success", "Error"}
        /\ (call.exc # "") <=> (call.outcome = "Error")

C9_Witness ==
    /\ Called
    /\ call.outcome = "Error"
    /\ call.exc = "KeyError: 'CreationTime (with ms)'"
    /\ Len(Selected(Before)) >= 1

(***************************************************************************)
(* C10.  Every file name a successful call writes ends with ".pxm" and     *)
(* holds no underscore.                                                    *)
(***************************************************************************)
C10_OutputNamesArePxm ==
    (Called /\ call.outcome = "Success") =>
        \A i \in 1..Len(OutRows) :
           /\ HasPxmSuffix(OutRows[i][1])
           /\ ~HasUnderscore(OutRows[i][1])

C10_Witness ==
    /\ Called
    /\ call.outcome = "Success"
    /\ Len(OutRows) = 3
    /\ \A i \in 1..3 : HasUnderscore(NameOf(Before, Selected(Before)[i]))

====
